---- MODULE Spec2Model ----
(***************************************************************************)
(* chronotask-api: the progression domain model (Character, XP curve,      *)
(* CharacterAttribute), the authorization gate (bearer-token middleware,   *)
(* JWT service, protected handlers), the character and attribute tables    *)
(* with the use cases that create and read them, user registration and     *)
(* login.                                                                  *)
(*                                                                         *)
(* Strings that the code inspects (names, Authorization headers, e-mail    *)
(* addresses) are sequences of one-character strings; an error is the      *)
(* chain of messages wrapped around its cause.  Go's int is 64 bits wide   *)
(* in the shipped build (GOARCH=amd64); the XP and attribute counters are  *)
(* capped far below that width by the guards of the actions.  Use cases    *)
(* running concurrently take one step per query they send to the database. *)
(***************************************************************************)
EXTENDS Integers, Sequences, FiniteSets, TLC

VARIABLES
    \* entity.Character
    charName, level, currentXp, totalXp, charLast,
    \* the XP curve applied to a drawn level
    curveLevel, curveXp,
    \* entity.CharacterAttribute
    attrExists, attrName, attrValue, attrLast,
    \* the clock and the protected request being served
    now, req,
    \* the character and attribute tables, the use cases in flight and the
    \* number of character creations that reported success, per user
    characters, attributes, tasks, successes, requests,
    \* the users table and the registrations in flight
    users, regs,
    \* the token the JWT service issued last and what validating it returned
    issued,
    \* the login being served and the outcomes of the logins served so far
    login, outcomes

charVars == <<charName, level, currentXp, totalXp, charLast>>
curveVars == <<curveLevel, curveXp>>
attrVars == <<attrExists, attrName, attrValue, attrLast>>
gateVars == <<now, req>>
storeVars == <<characters, attributes, tasks, successes, requests>>
regVars == <<users, regs>>
tokenVars == <<issued>>
loginVars == <<login, outcomes>>
restVars == <<storeVars, regVars, tokenVars, loginVars>>
exceptStore ==
    <<charVars, curveVars, attrVars, gateVars, regVars, tokenVars, loginVars>>
exceptReg ==
    <<charVars, curveVars, attrVars, gateVars, storeVars, tokenVars, loginVars>>
vars == <<charName, level, currentXp, totalXp, charLast, curveLevel, curveXp,
          attrExists, attrName, attrValue, attrLast, now, req,
          characters, attributes, tasks, successes, requests, users, regs,
          issued, login, outcomes>>

----------------------------------------------------------------------------
(* Bounds *)

MaxTotalXp == 2000
MaxAttrValue == 20
MaxTime == 5
MaxCurveLevel == 55
MaxRequests == 3
MaxRefreshes == 3

----------------------------------------------------------------------------
(* Strings *)

Space == " "

RECURSIVE TrimLeft(_)
TrimLeft(s) ==
    IF s # <<>> /\ Head(s) = Space THEN TrimLeft(Tail(s)) ELSE s

RECURSIVE TrimRight(_)
TrimRight(s) ==
    IF s # <<>> /\ s[Len(s)] = Space
    THEN TrimRight(SubSeq(s, 1, Len(s) - 1))
    ELSE s

\* strings.TrimSpace
TrimSpace(s) == TrimRight(TrimLeft(s))

Repeat(ch, n) == [i \in 1..n |-> ch]

MinNameLen == 2
MaxNameLen == 50

\* The name validation shared by NewCharacter and UpdateName.
NameErr(name) ==
    LET t == TrimSpace(name) IN
    IF t = <<>> THEN "character name cannot be empty"
    ELSE IF Len(t) < MinNameLen THEN "character name must be at least 2 characters"
    ELSE IF Len(t) > MaxNameLen THEN "character name cannot exceed 50 characters"
    ELSE "ok"

NameInputs ==
    { <<>>, <<" ", " ">>, <<"X">>, <<" ", "X", " ">>,
      <<"H", "e", "r", "o">>, <<" ", "M", "a", "g", "e", " ">>,
      Repeat("a", MaxNameLen), Repeat("a", MaxNameLen + 1) }

IdInputs == {"", "char-1"}
UserIdInputs == {"", "user-1"}

----------------------------------------------------------------------------
(* The XP curve *)

\* floor(sqrt(n)), by bisection on [lo, hi] with lo*lo <= n < (hi+1)*(hi+1)
RECURSIVE SqrtBetween(_, _, _)
SqrtBetween(n, lo, hi) ==
    IF lo = hi THEN lo
    ELSE LET mid == (lo + hi + 1) \div 2 IN
         IF mid * mid <= n THEN SqrtBetween(n, mid, hi)
         ELSE SqrtBetween(n, lo, mid - 1)

ISqrt(n) == SqrtBetween(n, 0, 46340)

\* math.Round(math.Sqrt(n)) for a natural n: the nearest integer to the
\* square root (a half never occurs, n being an integer).
RoundSqrt(n) ==
    LET f == ISqrt(n) IN IF n - f * f > f THEN f + 1 ELSE f

\* int(100 * level^1.5) with the fraction dropped instead of rounded
XpForNextLevelTruncated(lvl) == ISqrt(10000 * lvl * lvl * lvl)

\* Character.XpForNextLevel: int(math.Round(100 * math.Pow(level, 1.5))),
\* that is the nearest integer to sqrt(10000 * level^3).
XpForNextLevel(lvl) == RoundSqrt(10000 * lvl * lvl * lvl)

----------------------------------------------------------------------------
(* entity.Character *)

NewCharacterErr(id, name, userID) ==
    IF id = "" THEN "character id cannot be empty"
    ELSE IF NameErr(name) # "ok" THEN NameErr(name)
    ELSE IF userID = "" THEN "user id cannot be empty"
    ELSE "ok"

\* The loop written as a single "if": at most one level per call.
LevelUpOnce(lvl, cur, gained) ==
    IF cur >= XpForNextLevel(lvl)
    THEN [level |-> lvl + 1, currentXp |-> cur - XpForNextLevel(lvl),
          levelsGained |-> gained + 1]
    ELSE [level |-> lvl, currentXp |-> cur, levelsGained |-> gained]

\* The loop with the level incremented before the threshold is consumed.
RECURSIVE LevelUpLevelFirst(_, _, _)
LevelUpLevelFirst(lvl, cur, gained) ==
    IF cur >= XpForNextLevel(lvl)
    THEN LevelUpLevelFirst(lvl + 1, cur - XpForNextLevel(lvl + 1), gained + 1)
    ELSE [level |-> lvl, currentXp |-> cur, levelsGained |-> gained]

\* The level-up loop of AddXp: while currentXp >= XpForNextLevel(level),
\* consume the threshold and gain a level.
RECURSIVE LevelUpLoop(_, _, _)
LevelUpLoop(lvl, cur, gained) ==
    IF cur >= XpForNextLevel(lvl)
    THEN LevelUpLoop(lvl + 1, cur - XpForNextLevel(lvl), gained + 1)
    ELSE [level |-> lvl, currentXp |-> cur, levelsGained |-> gained]

XpGrants == {-1, 0, 50, 100, 150, 283, 500}

CharSnapshot(op, arg, err, gained) ==
    [op |-> op, arg |-> arg, err |-> err, levelsGained |-> gained,
     preLevel |-> level, preCurrentXp |-> currentXp, preTotalXp |-> totalXp]

\* State after a successful NewCharacter(id, name, userID).
CharInit ==
    \E id \in IdInputs, name \in NameInputs, userID \in UserIdInputs :
        /\ NewCharacterErr(id, name, userID) = "ok"
        /\ charName = TrimSpace(name)
        /\ level = 1
        /\ currentXp = 0
        /\ totalXp = 0
        /\ charLast = [op |-> "NewCharacter", arg |-> 0, err |-> FALSE,
                       levelsGained |-> 0, preLevel |-> 1,
                       preCurrentXp |-> 0, preTotalXp |-> 0]

\* AddXp without the check for a negative amount.
AddXpUnchecked(xp) ==
    /\ totalXp + xp <= MaxTotalXp
    /\ LET r == LevelUpLoop(level, currentXp + xp, 0) IN
         /\ totalXp' = totalXp + xp
         /\ level' = r.level
         /\ currentXp' = r.currentXp
         /\ charLast' = CharSnapshot("AddXp", xp, FALSE, r.levelsGained)
    /\ UNCHANGED <<charName, curveVars, attrVars, gateVars, restVars>>

\* AddXp rejecting a zero amount along with the negative ones.
AddXpZeroRejected(xp) ==
    /\ totalXp + xp <= MaxTotalXp
    /\ IF xp <= 0
       THEN /\ charLast' = CharSnapshot("AddXp", xp, TRUE, 0)
            /\ UNCHANGED <<level, currentXp, totalXp>>
       ELSE LET r == LevelUpLoop(level, currentXp + xp, 0) IN
            /\ totalXp' = totalXp + xp
            /\ level' = r.level
            /\ currentXp' = r.currentXp
            /\ charLast' = CharSnapshot("AddXp", xp, FALSE, r.levelsGained)
    /\ UNCHANGED <<charName, curveVars, attrVars, gateVars, restVars>>

\* AddXp adding the amount before it checks the sign.
AddXpCheckedLate(xp) ==
    /\ totalXp + xp <= MaxTotalXp
    /\ IF xp < 0
       THEN /\ totalXp' = totalXp + xp
            /\ currentXp' = currentXp + xp
            /\ charLast' = CharSnapshot("AddXp", xp, TRUE, 0)
            /\ UNCHANGED level
       ELSE LET r == LevelUpLoop(level, currentXp + xp, 0) IN
            /\ totalXp' = totalXp + xp
            /\ level' = r.level
            /\ currentXp' = r.currentXp
            /\ charLast' = CharSnapshot("AddXp", xp, FALSE, r.levelsGained)
    /\ UNCHANGED <<charName, curveVars, attrVars, gateVars, restVars>>

\* AddXp keeping in totalXp only what the level-ups left over.
AddXpLedgerConsumed(xp) ==
    /\ totalXp + xp <= MaxTotalXp
    /\ IF xp < 0
       THEN /\ charLast' = CharSnapshot("AddXp", xp, TRUE, 0)
            /\ UNCHANGED <<level, currentXp, totalXp>>
       ELSE LET r == LevelUpLoop(level, currentXp + xp, 0) IN
            /\ totalXp' = IF r.levelsGained > 0 THEN r.currentXp
                          ELSE totalXp + xp
            /\ level' = r.level
            /\ currentXp' = r.currentXp
            /\ charLast' = CharSnapshot("AddXp", xp, FALSE, r.levelsGained)
    /\ UNCHANGED <<charName, curveVars, attrVars, gateVars, restVars>>

AddXp(xp) ==
    /\ totalXp + xp <= MaxTotalXp
    /\ IF xp < 0
       THEN /\ charLast' = CharSnapshot("AddXp", xp, TRUE, 0)
            /\ UNCHANGED <<level, currentXp, totalXp>>
       ELSE IF xp = 0
       THEN /\ charLast' = CharSnapshot("AddXp", xp, FALSE, 0)
            /\ UNCHANGED <<level, currentXp, totalXp>>
       ELSE LET r == LevelUpLoop(level, currentXp + xp, 0) IN
            /\ totalXp' = totalXp + xp
            /\ level' = r.level
            /\ currentXp' = r.currentXp
            /\ charLast' = CharSnapshot("AddXp", xp, FALSE, r.levelsGained)
    /\ UNCHANGED <<charName, curveVars, attrVars, gateVars, restVars>>

UpdateName(name) ==
    /\ IF NameErr(name) # "ok"
       THEN /\ charLast' = CharSnapshot("UpdateName", 0, TRUE, 0)
            /\ UNCHANGED charName
       ELSE /\ charName' = TrimSpace(name)
            /\ charLast' = CharSnapshot("UpdateName", 0, FALSE, 0)
    /\ UNCHANGED <<level, currentXp, totalXp, curveVars, attrVars, gateVars, restVars>>

NextCharacter ==
    \/ \E xp \in XpGrants : AddXp(xp)
    \/ \E name \in NameInputs : UpdateName(name)

----------------------------------------------------------------------------
(* Character.AddXp one iteration of its loop at a time *)

\* The characters ReconstituteCharacter loads: it copies level, currentXp and
\* totalXp as stored, so currentXp may already reach the threshold.
StoredLevels == {1, 2, 3}
StoredCurrentXp == {0, 100, 1000}

\* The amounts AddXp is called with.
LoopGrants == {-1, 0, 150, 500}

ReconstituteCharacter ==
    \E lvl \in StoredLevels, cur \in StoredCurrentXp :
        /\ charName = <<"H", "e", "r", "o">>
        /\ level = lvl
        /\ currentXp = cur
        /\ totalXp = cur + XpForNextLevel(1) * (lvl - 1)
        /\ charLast = [op |-> "ReconstituteCharacter", arg |-> 0, err |-> FALSE,
                       levelsGained |-> 0, preLevel |-> lvl,
                       preCurrentXp |-> cur, preTotalXp |-> totalXp]

InLoop == charLast.op = "AddXpLoop"

\* AddXp up to the first test of the loop condition.
AddXpEnter(xp) ==
    /\ ~InLoop
    /\ totalXp + xp <= MaxTotalXp
    /\ IF xp < 0
       THEN /\ charLast' = CharSnapshot("AddXp", xp, TRUE, 0)
            /\ UNCHANGED <<level, currentXp, totalXp>>
       ELSE IF xp = 0
       THEN /\ charLast' = CharSnapshot("AddXp", xp, FALSE, 0)
            /\ UNCHANGED <<level, currentXp, totalXp>>
       ELSE /\ currentXp' = currentXp + xp
            /\ totalXp' = totalXp + xp
            /\ charLast' = CharSnapshot("AddXpLoop", xp, FALSE, 0)
            /\ UNCHANGED level
    /\ UNCHANGED <<charName, curveVars, attrVars, gateVars, restVars>>

\* An iteration that raises the level and leaves currentXp as it was.
LevelUpStepKeepsXp ==
    /\ InLoop
    /\ currentXp >= XpForNextLevel(level)
    /\ level' = level + 1
    /\ charLast' = [charLast EXCEPT !.levelsGained = @ + 1]
    /\ UNCHANGED <<currentXp, totalXp>>
    /\ UNCHANGED <<charName, curveVars, attrVars, gateVars, restVars>>

\* One iteration of the loop: the condition holds, the body runs.
LevelUpStep ==
    /\ InLoop
    /\ currentXp >= XpForNextLevel(level)
    /\ currentXp' = currentXp - XpForNextLevel(level)
    /\ level' = level + 1
    /\ charLast' = [charLast EXCEPT !.levelsGained = @ + 1]
    /\ UNCHANGED totalXp
    /\ UNCHANGED <<charName, curveVars, attrVars, gateVars, restVars>>

\* The loop condition fails: AddXp returns levelsGained.
AddXpReturn ==
    /\ InLoop
    /\ currentXp < XpForNextLevel(level)
    /\ charLast' = [charLast EXCEPT !.op = "AddXp"]
    /\ UNCHANGED <<level, currentXp, totalXp>>
    /\ UNCHANGED <<charName, curveVars, attrVars, gateVars, restVars>>

NextAddXpLoop ==
    \/ \E xp \in LoopGrants : AddXpEnter(xp)
    \/ LevelUpStep
    \/ AddXpReturn

----------------------------------------------------------------------------
(* The XP curve as a function of the level *)

CurveIdle == curveLevel = 1 /\ curveXp = 0
CharIdle ==
    /\ charName = <<>> /\ level = 1 /\ currentXp = 0 /\ totalXp = 0
    /\ charLast = [op |-> "none", arg |-> 0, err |-> FALSE,
                   levelsGained |-> 0, preLevel |-> 1,
                   preCurrentXp |-> 0, preTotalXp |-> 0]

CurveInit == curveLevel \in 1..MaxCurveLevel /\ curveXp = 0

\* Evaluate XpForNextLevel on a character of level curveLevel.
ComputeXpForNextLevel ==
    /\ curveXp = 0
    /\ curveXp' = XpForNextLevel(curveLevel)
    /\ UNCHANGED <<curveLevel, charVars, attrVars, gateVars, restVars>>

\* Move on to the next level.
CurveNextLevel ==
    /\ curveXp # 0
    /\ curveLevel < MaxCurveLevel
    /\ curveLevel' = curveLevel + 1
    /\ curveXp' = 0
    /\ UNCHANGED <<charVars, attrVars, gateVars, restVars>>

NextCurve == ComputeXpForNextLevel \/ CurveNextLevel

----------------------------------------------------------------------------
(* entity.CharacterAttribute *)

AttrNameErr(name) ==
    LET t == TrimSpace(name) IN
    IF t = <<>> THEN "attribute name cannot be empty"
    ELSE IF Len(t) < MinNameLen THEN "attribute name must be at least 2 characters"
    ELSE IF Len(t) > MaxNameLen THEN "attribute name cannot exceed 50 characters"
    ELSE "ok"

NewCharacterAttributeErr(name, value, characterID) ==
    IF AttrNameErr(name) # "ok" THEN AttrNameErr(name)
    ELSE IF value < 0 THEN "attribute value cannot be negative"
    ELSE IF characterID = "" THEN "character id cannot be empty"
    ELSE "ok"

AttrNameInputs == { <<>>, <<"S">>, <<" ", "S", "t", "r", " ">>, Repeat("a", MaxNameLen + 1) }
AttrArgs == {-3, -1, 0, 1, 5, 10, 15}

AttrSnapshot(op, arg, err) ==
    [op |-> op, arg |-> arg, err |-> err, preValue |-> attrValue]

AttrIdle ==
    /\ attrExists = FALSE /\ attrName = <<>> /\ attrValue = 0
    /\ attrLast = [op |-> "none", arg |-> 0, err |-> FALSE, preValue |-> 0]

NewCharacterAttribute(name, value, characterID) ==
    /\ ~attrExists
    /\ IF NewCharacterAttributeErr(name, value, characterID) # "ok"
       THEN /\ attrLast' = AttrSnapshot("NewCharacterAttribute", value, TRUE)
            /\ UNCHANGED <<attrExists, attrName, attrValue>>
       ELSE /\ attrExists' = TRUE
            /\ attrName' = TrimSpace(name)
            /\ attrValue' = value
            /\ attrLast' = AttrSnapshot("NewCharacterAttribute", value, FALSE)
    /\ UNCHANGED <<charVars, curveVars, gateVars, restVars>>

UpdateValue(newValue) ==
    /\ attrExists
    /\ IF newValue < 0
       THEN /\ attrLast' = AttrSnapshot("UpdateValue", newValue, TRUE)
            /\ UNCHANGED attrValue
       ELSE /\ attrValue' = newValue
            /\ attrLast' = AttrSnapshot("UpdateValue", newValue, FALSE)
    /\ UNCHANGED <<attrExists, attrName, charVars, curveVars, gateVars, restVars>>

\* IncrementValue without the check for a negative amount.
IncrementValueUnchecked(amount) ==
    /\ attrExists
    /\ attrValue + amount <= MaxAttrValue
    /\ attrValue' = attrValue + amount
    /\ attrLast' = AttrSnapshot("IncrementValue", amount, FALSE)
    /\ UNCHANGED <<attrExists, attrName, charVars, curveVars, gateVars, restVars>>

IncrementValue(amount) ==
    /\ attrExists
    /\ attrValue + amount <= MaxAttrValue
    /\ IF amount < 0
       THEN /\ attrLast' = AttrSnapshot("IncrementValue", amount, TRUE)
            /\ UNCHANGED attrValue
       ELSE /\ attrValue' = attrValue + amount
            /\ attrLast' = AttrSnapshot("IncrementValue", amount, FALSE)
    /\ UNCHANGED <<attrExists, attrName, charVars, curveVars, gateVars, restVars>>

\* DecrementValue storing the difference before testing it.
DecrementValueStoreFirst(amount) ==
    /\ attrExists
    /\ IF amount < 0
       THEN /\ attrLast' = AttrSnapshot("DecrementValue", amount, TRUE)
            /\ UNCHANGED attrValue
       ELSE /\ attrValue' = attrValue - amount
            /\ attrLast' = AttrSnapshot("DecrementValue", amount, attrValue - amount < 0)
    /\ UNCHANGED <<attrExists, attrName, charVars, curveVars, gateVars, restVars>>

DecrementValue(amount) ==
    /\ attrExists
    /\ IF amount < 0
       THEN /\ attrLast' = AttrSnapshot("DecrementValue", amount, TRUE)
            /\ UNCHANGED attrValue
       ELSE LET newValue == attrValue - amount IN
            IF newValue < 0
            THEN /\ attrLast' = AttrSnapshot("DecrementValue", amount, TRUE)
                 /\ UNCHANGED attrValue
            ELSE /\ attrValue' = newValue
                 /\ attrLast' = AttrSnapshot("DecrementValue", amount, FALSE)
    /\ UNCHANGED <<attrExists, attrName, charVars, curveVars, gateVars, restVars>>

NextAttribute ==
    \/ \E name \in AttrNameInputs, value \in AttrArgs, characterID \in IdInputs :
           NewCharacterAttribute(name, value, characterID)
    \/ \E n \in AttrArgs : UpdateValue(n)
    \/ \E a \in AttrArgs : IncrementValue(a)
    \/ \E a \in AttrArgs : DecrementValue(a)

----------------------------------------------------------------------------
(* service.JWTServiceImpl *)

\* The clock counts ticks; a second has TicksPerSecond of them.
TicksPerSecond == 2

\* The configured token lifetimes (JWT_ACCESS_TOKEN_DURATION,
\* JWT_REFRESH_TOKEN_DURATION), whole seconds as the defaults are, in ticks
\* of the clock.
AccessTokenDuration == 1 * TicksPerSecond
RefreshTokenDuration == 2 * TicksPerSecond

\* jwt.NewNumericDate: the time truncated to the second
NumericDate(t) == t - (t % TicksPerSecond)

SecretKey == "server-secret"
HMACAlgs == {"HS256", "HS384", "HS512"}

Users == {"user-1", "user-2"}
EmailOf(u) == IF u = "user-1" THEN "one@example.com" ELSE "two@example.com"

\* A token string: raw is "" for the empty string, "garbage" for a string
\* that is not a JWT and "jwt" for header.claims.signature, whose parts the
\* other fields carry (sig is the key the signature was made with).
JWT(userID, email, iat, exp, sig, alg) ==
    [raw |-> "jwt", userID |-> userID, email |-> email, iat |-> iat,
     nbf |-> iat, exp |-> exp, sig |-> sig, alg |-> alg]

EmptyToken ==
    [raw |-> "", userID |-> "", email |-> "", iat |-> 0, nbf |-> 0,
     exp |-> 0, sig |-> "", alg |-> ""]
GarbageToken == [EmptyToken EXCEPT !.raw = "garbage"]

\* generateToken at time t: HS256 over {user_id, email, exp, iat, nbf} with
\* exp the numeric date of t + duration and iat = nbf the numeric date of t,
\* signed with the service's secret.
generateToken(userID, email, duration, t) ==
    JWT(userID, email, NumericDate(t), NumericDate(t + duration), SecretKey, "HS256")

\* The access token given the lifetime of the refresh token.
GenerateAccessTokenLongLived(userID, email, t) ==
    generateToken(userID, email, RefreshTokenDuration, t)

GenerateAccessToken(userID, email, t) ==
    generateToken(userID, email, AccessTokenDuration, t)

GenerateRefreshToken(userID, email, t) ==
    generateToken(userID, email, RefreshTokenDuration, t)

NoClaims == [ok |-> FALSE, UserID |-> "", Email |-> "", IssuedAt |-> 0, ExpiresAt |-> 0]

\* ValidateToken with a key function that hands the secret to any method.
ValidateTokenAnyMethod(tok, t) ==
    IF tok.raw # "jwt" THEN NoClaims
    ELSE IF tok.sig # SecretKey THEN NoClaims
    ELSE IF ~(t < tok.exp) THEN NoClaims
    ELSE IF t < tok.nbf THEN NoClaims
    ELSE [ok |-> TRUE, UserID |-> tok.userID, Email |-> tok.email,
          IssuedAt |-> tok.iat, ExpiresAt |-> tok.exp]

\* ValidateToken at time t: jwt.ParseWithClaims with the key function that
\* admits only HMAC methods, then signature, expiry and not-before.
ValidateToken(tok, t) ==
    IF tok.raw # "jwt" THEN NoClaims
    ELSE IF tok.alg \notin HMACAlgs THEN NoClaims
    ELSE IF tok.sig # SecretKey THEN NoClaims
    ELSE IF ~(t < tok.exp) THEN NoClaims
    ELSE IF t < tok.nbf THEN NoClaims
    ELSE [ok |-> TRUE, UserID |-> tok.userID, Email |-> tok.email,
          IssuedAt |-> tok.iat, ExpiresAt |-> tok.exp]

\* The tokens the service has been able to issue up to time t.
AccessTokensUpTo(t) ==
    {GenerateAccessToken(u, EmailOf(u), i) : u \in Users, i \in 0..t}
RefreshTokensUpTo(t) ==
    {GenerateRefreshToken(u, EmailOf(u), i) : u \in Users, i \in 0..t}

\* Tokens a client can make up without the secret.
ForgedTokens(t) ==
    {JWT(u, EmailOf(u), t, t + AccessTokenDuration, "other-secret", "HS256") : u \in Users}
    \cup {JWT(u, EmailOf(u), t, t + AccessTokenDuration, "", "none") : u \in Users}
    \cup {JWT("user-1", EmailOf("user-1"), t, t + AccessTokenDuration, SecretKey, "RS256")}

PresentableTokens(t) ==
    AccessTokensUpTo(t) \cup RefreshTokensUpTo(t) \cup ForgedTokens(t)
        \cup {GarbageToken}

----------------------------------------------------------------------------
(* middleware.AuthMiddleware and the protected handlers *)

BearerPrefix == <<"B", "e", "a", "r", "e", "r", " ">>

\* strings.HasPrefix / strings.TrimPrefix on the characters of a string
HasPrefix(s, prefix) ==
    Len(s) >= Len(prefix) /\ SubSeq(s, 1, Len(prefix)) = prefix
TrimPrefix(s, prefix) ==
    IF HasPrefix(s, prefix) THEN SubSeq(s, Len(prefix) + 1, Len(s)) ELSE s

\* An Authorization header is its leading characters (lead) followed by a
\* token string (tok); the absent header is the empty string.  A token
\* contains no space, so the header starts with "Bearer " exactly when lead
\* does.
Header(lead, tok) == [lead |-> lead, tok |-> tok]
NoHeader == Header(<<>>, EmptyToken)

HeaderIsEmpty(h) == h.lead = <<>> /\ h.tok.raw = ""
HeaderHasBearerPrefix(h) == HasPrefix(h.lead, BearerPrefix)
\* the string left after the prefix: the token itself when nothing else
\* precedes it, otherwise a string that is not a JWT
BearerToken(h) ==
    IF TrimPrefix(h.lead, BearerPrefix) = <<>> THEN h.tok ELSE GarbageToken

HeaderLeads ==
    { BearerPrefix,
      <<"B", "e", "a", "r", "e", "r">>,
      <<"b", "e", "a", "r", "e", "r", " ">>,
      <<"B", "a", "s", "i", "c", " ">>,
      <<>> }

HeadersAt(t) ==
    {NoHeader, Header(BearerPrefix, EmptyToken)}
    \cup {Header(BearerPrefix, tok) : tok \in PresentableTokens(t)}
    \cup {Header(lead, GenerateAccessToken("user-1", EmailOf("user-1"), t)) :
              lead \in HeaderLeads}

Routes ==
    {"GET /user/profile", "GET /user/character", "POST /character",
     "GET /character/:characterId/attribute"}

CharacterIds == {"char-1", "char-2"}

NoInput == [UseCase |-> "none", UserID |-> "", Name |-> "", CharacterID |-> ""]

IdleRequest ==
    [pc |-> "idle", route |-> "", header |-> NoHeader, bodyOk |-> TRUE,
     bodyName |-> "", claimedUserID |-> "", characterId |-> "",
     authAt |-> 0, ctxSet |-> FALSE, ctxUserID |-> "", ctxEmail |-> "",
     handlerRan |-> FALSE, ucInput |-> NoInput, status |-> 0, error |-> ""]

GateIdle == now = 0 /\ req = IdleRequest

\* The clock advances.
Tick ==
    /\ now < MaxTime
    /\ now' = now + 1
    /\ UNCHANGED <<req, charVars, curveVars, attrVars, restVars>>

\* A request for a protected route arrives; claimedUserID is a user id the
\* client wrote into the body or the query string.
Receive(route, header, bodyOk, claimedUserID, characterId) ==
    /\ req.pc \in {"idle", "done"}
    /\ req' = [IdleRequest EXCEPT
                  !.pc = "received", !.route = route, !.header = header,
                  !.bodyOk = bodyOk, !.bodyName = "Hero",
                  !.claimedUserID = claimedUserID,
                  !.characterId = characterId]
    /\ UNCHANGED <<now, charVars, curveVars, attrVars, restVars>>

Respond(r, status, error) ==
    [r EXCEPT !.pc = "done", !.status = status, !.error = error]

\* RequireAuth letting a request with an invalid token through.
RequireAuthNoAbort ==
    /\ req.pc = "received"
    /\ LET h == req.header
           token == BearerToken(h)
           claims == ValidateToken(token, now)
           r == [req EXCEPT !.authAt = now]
       IN
       req' =
         IF HeaderIsEmpty(h) THEN Respond(r, 401, "missing_authorization")
         ELSE IF ~HeaderHasBearerPrefix(h)
              THEN Respond(r, 401, "invalid_authorization")
         ELSE IF token.raw = "" THEN Respond(r, 401, "missing_token")
         ELSE [r EXCEPT !.pc = "authenticated", !.ctxSet = TRUE,
                        !.ctxUserID = claims.UserID,
                        !.ctxEmail = claims.Email]
    /\ UNCHANGED <<now, charVars, curveVars, attrVars, restVars>>

\* AuthMiddleware.RequireAuth
RequireAuth ==
    /\ req.pc = "received"
    /\ LET h == req.header
           token == BearerToken(h)
           claims == ValidateToken(token, now)
           r == [req EXCEPT !.authAt = now]
       IN
       req' =
         IF HeaderIsEmpty(h) THEN Respond(r, 401, "missing_authorization")
         ELSE IF ~HeaderHasBearerPrefix(h)
              THEN Respond(r, 401, "invalid_authorization")
         ELSE IF token.raw = "" THEN Respond(r, 401, "missing_token")
         ELSE IF ~claims.ok THEN Respond(r, 401, "invalid_token")
         ELSE [r EXCEPT !.pc = "authenticated", !.ctxSet = TRUE,
                        !.ctxUserID = claims.UserID,
                        !.ctxEmail = claims.Email]
    /\ UNCHANGED <<now, charVars, curveVars, attrVars, restVars>>

\* middleware.GetUserID
GetUserID(r) == [ok |-> r.ctxSet, id |-> r.ctxUserID]

\* UserHandler.GetProfile
GetProfile ==
    /\ req.pc = "authenticated"
    /\ req.route = "GET /user/profile"
    /\ LET r == [req EXCEPT !.handlerRan = TRUE] IN
       req' = IF ~r.ctxSet THEN Respond(r, 401, "unauthorized")
              ELSE Respond(r, 200, "")
    /\ UNCHANGED <<now, charVars, curveVars, attrVars, restVars>>

\* An error is the chain of messages that fmt.Errorf("...: %w") wrapped
\* around its cause, outermost first; err.Error() is the chain joined by
\* ": ".  The empty chain is the nil error.
NoError == <<>>

\* err.Error() == msg
ErrorIs(err, msg) == err = <<msg>>

\* strings.Contains on one message of the chain
MessageContains(message, needle) ==
    \/ message = needle
    \/ /\ message = "character not found or does not belong to user"
       /\ needle \in {"character not found", "does not belong"}

\* strings.Contains(err.Error(), needle)
ErrorContains(err, needle) ==
    \E i \in 1..Len(err) : MessageContains(err[i], needle)

\* The results of the use cases that the handlers of the gate are given.
CreateCharacterResults ==
    {NoError, <<"user already has a character">>,
     <<"failed to save character", "failed to create character", "connection refused">>}
GetUserCharactersResults ==
    {NoError, <<"failed to fetch user characters", "connection refused">>}
GetCharacterAttributesResults ==
    {NoError,
     <<"character not found or does not belong to user",
       "character not found or does not belong to user">>,
     <<"failed to fetch character attributes",
       "failed to find character attributes", "connection refused">>}

\* strings.Contains(err.Error(), "character not found") ||
\* strings.Contains(err.Error(), "does not belong")
MentionsNotFound(err) ==
    ErrorContains(err, "character not found") \/ ErrorContains(err, "does not belong")

Response(status, error, message) ==
    [status |-> status, error |-> error, message |-> message]

\* The response CharacterHandler.Create writes for the use case's error.
CreateCharacterResponse(err) ==
    IF err = NoError THEN Response(201, "", <<>>)
    ELSE IF ErrorIs(err, "user already has a character")
         THEN Response(409, "character_already_exists",
                       <<"you already have a character">>)
    ELSE Response(422, "character_creation_failed", err)

\* The response CharacterAttributeHandler.GetByCharacterID writes for the
\* use case's error.
GetCharacterAttributesResponse(err) ==
    IF err = NoError THEN Response(200, "", <<>>)
    ELSE IF MentionsNotFound(err)
         THEN Response(403, "forbidden",
                       <<"character not found or you are not authorized to access it">>)
    ELSE Response(500, "failed_to_fetch_attributes", err)

\* CharacterHandler.GetList
GetList(result) ==
    /\ req.pc = "authenticated"
    /\ req.route = "GET /user/character"
    /\ LET r == [req EXCEPT !.handlerRan = TRUE]
           userID == GetUserID(r)
           called == [r EXCEPT !.ucInput =
                         [NoInput EXCEPT !.UseCase = "GetUserCharacters",
                                         !.UserID = userID.id]]
       IN
       req' = IF ~userID.ok THEN Respond(r, 401, "unauthorized")
              ELSE IF result # NoError
                   THEN Respond(called, 500, "failed_to_fetch_characters")
              ELSE Respond(called, 200, "")
    /\ UNCHANGED <<now, charVars, curveVars, attrVars, restVars>>

\* CharacterHandler.Create trusting a user id sent by the client.
CharacterHandlerCreateFromBody(result) ==
    /\ req.pc = "authenticated"
    /\ req.route = "POST /character"
    /\ LET r == [req EXCEPT !.handlerRan = TRUE]
           called == [r EXCEPT !.ucInput =
                         [NoInput EXCEPT !.UseCase = "CreateCharacter",
                                         !.UserID = r.claimedUserID,
                                         !.Name = r.bodyName]]
       IN
       req' = IF ~r.bodyOk THEN Respond(r, 400, "invalid_request")
              ELSE Respond(called, CreateCharacterResponse(result).status,
                           CreateCharacterResponse(result).error)
    /\ UNCHANGED <<now, charVars, curveVars, attrVars, restVars>>

\* CharacterHandler.Create
CharacterHandlerCreate(result) ==
    /\ req.pc = "authenticated"
    /\ req.route = "POST /character"
    /\ LET r == [req EXCEPT !.handlerRan = TRUE]
           userID == GetUserID(r)
           called == [r EXCEPT !.ucInput =
                         [NoInput EXCEPT !.UseCase = "CreateCharacter",
                                         !.UserID = userID.id,
                                         !.Name = r.bodyName]]
       IN
       req' = IF ~r.bodyOk THEN Respond(r, 400, "invalid_request")
              ELSE IF ~userID.ok THEN Respond(r, 401, "unauthorized")
              ELSE Respond(called, CreateCharacterResponse(result).status,
                           CreateCharacterResponse(result).error)
    /\ UNCHANGED <<now, charVars, curveVars, attrVars, restVars>>

\* CharacterAttributeHandler.GetByCharacterID
GetByCharacterID(result) ==
    /\ req.pc = "authenticated"
    /\ req.route = "GET /character/:characterId/attribute"
    /\ LET r == [req EXCEPT !.handlerRan = TRUE]
           userID == GetUserID(r)
           called == [r EXCEPT !.ucInput =
                         [NoInput EXCEPT !.UseCase = "GetCharacterAttributes",
                                         !.UserID = userID.id,
                                         !.CharacterID = r.characterId]]
       IN
       req' = IF r.characterId = "" THEN Respond(r, 400, "invalid_request")
              ELSE IF ~userID.ok THEN Respond(r, 401, "unauthorized")
              ELSE Respond(called, GetCharacterAttributesResponse(result).status,
                           GetCharacterAttributesResponse(result).error)
    /\ UNCHANGED <<now, charVars, curveVars, attrVars, restVars>>

NextGate ==
    \/ Tick
    \/ \E route \in Routes, header \in HeadersAt(now), bodyOk \in BOOLEAN,
          claimedUserID \in Users, characterId \in CharacterIds :
           /\ (route # "POST /character" => bodyOk)
           /\ (route # "GET /character/:characterId/attribute" =>
                   characterId = "char-1")
           /\ Receive(route, header, bodyOk, claimedUserID, characterId)
    \/ RequireAuth
    \/ GetProfile
    \/ \E result \in GetUserCharactersResults : GetList(result)
    \/ \E result \in CreateCharacterResults : CharacterHandlerCreate(result)
    \/ \E result \in GetCharacterAttributesResults : GetByCharacterID(result)

----------------------------------------------------------------------------
(* The characters and character_attributes tables and the use cases on them *)

\* The use cases that may be in flight at once, one per concurrent request.
TaskIds == {1, 2}

\* What a query may fail with besides the outcome the tables decide.
NoFailure == "none"
Failures == {NoFailure, "connection refused", "context canceled"}
UniqueViolation == "duplicate key value violates unique constraint"

\* uuid.New().String(): a fresh id for every creation a request attempts
UUIDs == <<"char-1", "char-2", "char-3", "char-4", "char-5", "char-6",
           "char-7", "char-8">>
UserIndex(userID) == IF userID = "user-1" THEN 1 ELSE 2
UUIDOf(t, userID) == UUIDs[2 * (t - 1) + UserIndex(userID)]
\* The ids a client asks for: those the first task issues.
IssuedIds == {UUIDOf(1, u) : u \in Users}

\* The names of baseAttributes; a letter outside ASCII is its two UTF-8 bytes,
\* since len() counts bytes.
Forca == <<"F", "o", "r", "C3", "A7", "a">>
Constituicao ==
    <<"C", "o", "n", "s", "t", "i", "t", "u", "i", "C3", "A7", "C3", "A3", "o">>
Vontade == <<"V", "o", "n", "t", "a", "d", "e">>
Sabedoria == <<"S", "a", "b", "e", "d", "o", "r", "i", "a">>
Inteligencia ==
    <<"I", "n", "t", "e", "l", "i", "g", "C3", "AA", "n", "c", "i", "a">>
Carisma == <<"C", "a", "r", "i", "s", "m", "a">>
Destreza == <<"D", "e", "s", "t", "r", "e", "z", "a">>

BaseAttr(name, value) == [name |-> name, value |-> value]

\* baseAttributes with Destreza left out
BaseAttributesShort ==
    <<BaseAttr(Forca, 5), BaseAttr(Constituicao, 5), BaseAttr(Vontade, 5),
      BaseAttr(Sabedoria, 5), BaseAttr(Inteligencia, 5), BaseAttr(Carisma, 5)>>

BaseAttributes ==
    <<BaseAttr(Forca, 5), BaseAttr(Constituicao, 5), BaseAttr(Vontade, 5),
      BaseAttr(Sabedoria, 5), BaseAttr(Inteligencia, 5), BaseAttr(Carisma, 5),
      BaseAttr(Destreza, 5)>>

\* The name a creation request carries: it passes the binding of the request
\* (2 to 50 characters) and NewCharacter trims it.
CharacterNames == { <<" ", "H", "e", "r", "o", " ">> }

\* A row of characters as NewCharacter makes it.
CharacterRow(id, name, userID) ==
    [id |-> id, name |-> TrimSpace(name), level |-> 1, currentXp |-> 0,
     totalXp |-> 0, userID |-> userID]

\* A row of character_attributes.
AttributeRow(characterID, name, value) ==
    [characterID |-> characterID, name |-> name, value |-> value]

IdleTask ==
    [op |-> "none", pc |-> "idle", userID |-> "", name |-> <<>>,
     characterID |-> "", written |-> 0, err |-> NoError, out |-> <<>>,
     response |-> Response(0, "", <<>>),
     \* what the tables held when the use case asked, and what it then did
     existed |-> FALSE, duplicate |-> FALSE, wroteCharacter |-> FALSE,
     idExisted |-> FALSE, owned |-> FALSE, lookup |-> "none",
     readAttributes |-> FALSE]

StoreIdle ==
    /\ characters = {}
    /\ attributes = {}
    /\ tasks = [t \in TaskIds |-> IdleTask]
    /\ successes = [u \in Users |-> 0]
    /\ requests = 0

\* SELECT EXISTS(SELECT 1 FROM characters WHERE user_id = $1), with the
\* answer always "false"
ExistsByUserIDNever(userID) == FALSE

\* The existence check answering "true" only for a character that has all
\* its base attributes.
ExistsByUserIDWhenComplete(userID) ==
    \E c \in characters :
        /\ c.userID = userID
        /\ Cardinality({a \in attributes : a.characterID = c.id}) >= 7

\* SELECT EXISTS(SELECT 1 FROM characters WHERE user_id = $1)
ExistsByUserID(userID) == \E c \in characters : c.userID = userID

\* The insert with only the primary key enforced.
InsertViolatesPrimaryKeyOnly(row) == \E c \in characters : c.id = row.id

\* The insert is rejected by the primary key or by UNIQUE (user_id).
InsertViolatesUnique(row) ==
    \E c \in characters : c.id = row.id \/ c.userID = row.userID

\* SELECT ... FROM characters WHERE id = $1, the owner not asked for
FindByID(id, userID) == {c \in characters : c.id = id}

\* SELECT ... FROM characters WHERE id = $1 AND user_id = $2
FindByIDAndUserID(id, userID) ==
    {c \in characters : c.id = id /\ c.userID = userID}

\* SELECT ... FROM character_attributes WHERE character_id = $1
FindByCharacterID(characterID) ==
    {a \in attributes : a.characterID = characterID}

\* The use case's error for a failed lookup, telling a character of another
\* owner from a character that is not there.
LookupErrorByCase(task, cause) ==
    IF \E c \in characters : c.id = task.characterID
    THEN <<"access denied">>
    ELSE <<"character not found">>

\* fmt.Errorf("character not found or does not belong to user: %w", err)
LookupError(task, cause) ==
    <<"character not found or does not belong to user">> \o cause

\* The attribute table after a failed write, with the rows of the character
\* taken back.
AttributesRolledBack(task) ==
    {a \in attributes : a.characterID # task.characterID}

\* The attribute table after a failed write: Execute returns at once and
\* undoes nothing.
AttributesAfterFailure(task) == attributes

\* The return with a cancelled call taken for a call that succeeded.
FinishCancelledAsSuccess(task, err, out, response) ==
    IF err # NoError /\ err[Len(err)] = "context canceled"
    THEN [task EXCEPT !.pc = "done", !.err = err, !.out = out,
                      !.response = Response(200, "", <<>>)]
    ELSE [task EXCEPT !.pc = "done", !.err = err, !.out = out,
                      !.response = response]

\* The use case returns (out, err) and the handler writes the response.
Finish(task, err, out, response) ==
    [task EXCEPT !.pc = "done", !.err = err, !.out = out, !.response = response]

\* A request reaches CreateCharacterUseCase.Execute.
StartCreateCharacter(t, userID, name) ==
    /\ tasks[t].pc \in {"idle", "done"}
    /\ requests < MaxRequests
    /\ requests' = requests + 1
    /\ tasks' = [tasks EXCEPT ![t] =
                    [IdleTask EXCEPT !.op = "CreateCharacter", !.pc = "exists",
                                     !.userID = userID, !.name = name]]
    /\ UNCHANGED <<characters, attributes, successes>>
    /\ UNCHANGED exceptStore

\* CreateCharacterUseCase.Execute up to the answer of ExistsByUserID.
CreateCharacterExistsByUserID(t, failure) ==
    LET task == tasks[t]
        seen == [task EXCEPT !.existed =
                    /\ failure = NoFailure
                    /\ \E c \in characters : c.userID = task.userID]
        err == IF failure # NoFailure
               THEN <<"failed to check if character exists",
                      "failed to check if character exists for user", failure>>
               ELSE IF ExistsByUserID(task.userID)
                    THEN <<"user already has a character">>
               ELSE NoError
    IN  /\ task.op = "CreateCharacter" /\ task.pc = "exists"
        /\ tasks' = [tasks EXCEPT ![t] =
                        IF err # NoError
                        THEN Finish(seen, err, <<>>, CreateCharacterResponse(err))
                        ELSE [seen EXCEPT !.pc = "insert",
                                          !.characterID = UUIDOf(t, task.userID)]]
        /\ UNCHANGED <<characters, attributes, successes>>
        /\ UNCHANGED <<requests, exceptStore>>

\* CreateCharacterUseCase.Execute from NewCharacter to the INSERT of the row.
CreateCharacterRepoCreate(t, failure) ==
    LET task == tasks[t]
        row == CharacterRow(task.characterID, task.name, task.userID)
        invalid == NewCharacterErr(task.characterID, task.name, task.userID)
        refused == [task EXCEPT !.duplicate =
                        \E c \in characters : c.userID = task.userID]
        err == IF invalid # "ok" THEN <<"failed to create character", invalid>>
               ELSE IF failure # NoFailure
                    THEN <<"failed to save character",
                           "failed to create character", failure>>
               ELSE IF InsertViolatesUnique(row)
                    THEN <<"failed to save character",
                           "failed to create character", UniqueViolation>>
               ELSE NoError
    IN  /\ task.op = "CreateCharacter" /\ task.pc = "insert"
        /\ IF err # NoError
           THEN /\ tasks' = [tasks EXCEPT ![t] =
                    Finish(IF invalid = "ok" /\ failure = NoFailure
                           THEN refused ELSE task,
                           err, <<>>, CreateCharacterResponse(err))]
                /\ UNCHANGED characters
           ELSE /\ characters' = characters \cup {row}
                /\ tasks' = [tasks EXCEPT ![t] =
                    [task EXCEPT !.pc = "attributes", !.wroteCharacter = TRUE]]
        /\ UNCHANGED <<attributes, successes>>
        /\ UNCHANGED <<requests, exceptStore>>

\* One turn of the loop over baseAttributes, and the return after the last.
CreateCharacterBaseAttribute(t, failure) ==
    LET task == tasks[t]
        base == BaseAttributes[task.written + 1]
        row == AttributeRow(task.characterID, base.name, base.value)
        invalid == NewCharacterAttributeErr(base.name, base.value, task.characterID)
        rejected == \/ \E a \in attributes : /\ a.characterID = row.characterID
                                             /\ a.name = row.name
                    \/ ~ \E c \in characters : c.id = row.characterID
        err == IF invalid # "ok" THEN <<"failed to create base attribute", invalid>>
               ELSE IF failure # NoFailure
                    THEN <<"failed to save base attribute",
                           "failed to create character attribute", failure>>
               ELSE IF rejected
                    THEN <<"failed to save base attribute",
                           "failed to create character attribute", UniqueViolation>>
               ELSE NoError
        stored == [task EXCEPT !.written = task.written + 1]
        out == [ID |-> task.characterID, Name |-> TrimSpace(task.name),
                Level |-> 1, CurrentXp |-> 0, TotalXp |-> 0,
                UserID |-> task.userID]
    IN  /\ task.op = "CreateCharacter" /\ task.pc = "attributes"
        /\ task.written < Len(BaseAttributes)
        /\ IF err # NoError
           THEN /\ tasks' = [tasks EXCEPT ![t] =
                    Finish(task, err, <<>>, CreateCharacterResponse(err))]
                /\ attributes' = AttributesAfterFailure(task)
                /\ UNCHANGED successes
           ELSE /\ attributes' = attributes \cup {row}
                /\ IF stored.written = Len(BaseAttributes)
                   THEN /\ tasks' = [tasks EXCEPT ![t] =
                            Finish(stored, NoError, <<out>>,
                                   CreateCharacterResponse(NoError))]
                        /\ successes' = [successes EXCEPT ![task.userID] = @ + 1]
                   ELSE /\ tasks' = [tasks EXCEPT ![t] = stored]
                        /\ UNCHANGED successes
        /\ UNCHANGED characters
        /\ UNCHANGED <<requests, exceptStore>>

\* A request reaches GetCharacterAttributesUseCase.Execute.
StartGetCharacterAttributes(t, userID, characterID) ==
    /\ tasks[t].pc \in {"idle", "done"}
    /\ requests < MaxRequests
    /\ requests' = requests + 1
    /\ tasks' = [tasks EXCEPT ![t] =
                    [IdleTask EXCEPT !.op = "GetCharacterAttributes",
                                     !.pc = "lookup", !.userID = userID,
                                     !.characterID = characterID]]
    /\ UNCHANGED <<characters, attributes, successes>>
    /\ UNCHANGED exceptStore

\* GetCharacterAttributesUseCase.Execute up to the answer of FindByIDAndUserID.
GetCharacterAttributesLookup(t, failure) ==
    LET task == tasks[t]
        rows == FindByIDAndUserID(task.characterID, task.userID)
        seen == [task EXCEPT
                    !.idExisted = \E c \in characters : c.id = task.characterID,
                    !.owned = \E c \in characters : /\ c.id = task.characterID
                                                    /\ c.userID = task.userID,
                    !.lookup = IF failure # NoFailure THEN "failed"
                               ELSE IF rows = {} THEN "no rows" ELSE "found"]
        err == IF failure # NoFailure
               THEN LookupError(seen, <<"failed to find character", failure>>)
               ELSE IF rows = {}
                    THEN LookupError(seen,
                            <<"character not found or does not belong to user">>)
               ELSE NoError
    IN  /\ task.op = "GetCharacterAttributes" /\ task.pc = "lookup"
        /\ tasks' = [tasks EXCEPT ![t] =
                        IF err # NoError
                        THEN Finish(seen, err, <<>>,
                                    GetCharacterAttributesResponse(err))
                        ELSE [seen EXCEPT !.pc = "attributes"]]
        /\ UNCHANGED <<characters, attributes, successes>>
        /\ UNCHANGED <<requests, exceptStore>>

\* GetCharacterAttributesUseCase.Execute from FindByCharacterID to the return.
GetCharacterAttributesFetch(t, failure) ==
    LET task == tasks[t]
        err == IF failure # NoFailure
               THEN <<"failed to fetch character attributes",
                      "failed to find character attributes", failure>>
               ELSE NoError
        read == [task EXCEPT !.readAttributes = TRUE]
        out == [CharacterID |-> task.characterID,
                Attributes |-> FindByCharacterID(task.characterID)]
    IN  /\ task.op = "GetCharacterAttributes" /\ task.pc = "attributes"
        /\ tasks' = [tasks EXCEPT ![t] =
                        Finish(read, err, IF err = NoError THEN <<out>> ELSE <<>>,
                               GetCharacterAttributesResponse(err))]
        /\ UNCHANGED <<characters, attributes, successes>>
        /\ UNCHANGED <<requests, exceptStore>>

NextStore ==
    \/ \E t \in TaskIds, userID \in Users, name \in CharacterNames :
           StartCreateCharacter(t, userID, name)
    \/ \E t \in TaskIds, failure \in Failures :
           CreateCharacterExistsByUserID(t, failure)
    \/ \E t \in TaskIds, failure \in Failures :
           CreateCharacterRepoCreate(t, failure)
    \/ \E t \in TaskIds, failure \in Failures :
           CreateCharacterBaseAttribute(t, failure)
    \/ \E t \in TaskIds, userID \in Users, characterID \in IssuedIds :
           StartGetCharacterAttributes(t, userID, characterID)
    \/ \E t \in TaskIds, failure \in Failures :
           GetCharacterAttributesLookup(t, failure)
    \/ \E t \in TaskIds, failure \in Failures :
           GetCharacterAttributesFetch(t, failure)

----------------------------------------------------------------------------
(* valueobject.Email, the users table and CreateUserUseCase *)

LowerCase == <<"a", "b", "c", "d", "e", "f", "g", "h", "i", "j", "k", "l", "m",
               "n", "o", "p", "q", "r", "s", "t", "u", "v", "w", "x", "y", "z">>
UpperCase == <<"A", "B", "C", "D", "E", "F", "G", "H", "I", "J", "K", "L", "M",
               "N", "O", "P", "Q", "R", "S", "T", "U", "V", "W", "X", "Y", "Z">>
Letters == {LowerCase[i] : i \in 1..Len(LowerCase)} \cup
           {UpperCase[i] : i \in 1..Len(UpperCase)}
Digits == {"0", "1", "2", "3", "4", "5", "6", "7", "8", "9"}

\* strings.ToLower
ToLowerChar(ch) ==
    IF \E i \in 1..Len(UpperCase) : UpperCase[i] = ch
    THEN LowerCase[CHOOSE i \in 1..Len(UpperCase) : UpperCase[i] = ch]
    ELSE ch
ToLower(s) == [i \in 1..Len(s) |-> ToLowerChar(s[i])]

\* emailRegex: ^[a-zA-Z0-9._%+\-]+@[a-zA-Z0-9.\-]+\.[a-zA-Z]{2,}$
LocalChars == Letters \cup Digits \cup {".", "_", "%", "+", "-"}
DomainChars == Letters \cup Digits \cup {".", "-"}
EmailRegexMatches(s) ==
    \E at \in 2..Len(s), dot \in 1..Len(s) :
        /\ s[at] = "@"
        /\ \A k \in 1..(at - 1) : s[k] \in LocalChars
        /\ dot > at + 1
        /\ s[dot] = "."
        /\ \A k \in (at + 1)..(dot - 1) : s[k] \in DomainChars
        /\ Len(s) - dot >= 2
        /\ \A k \in (dot + 1)..Len(s) : s[k] \in Letters

MaxEmailLen == 255

\* NewEmail: the value the address is stored and compared by
NewEmailValue(raw) == TrimSpace(ToLower(raw))

NewEmailErr(raw) ==
    LET email == NewEmailValue(raw) IN
    IF email = <<>> THEN "email cannot be empty"
    ELSE IF Len(email) > MaxEmailLen THEN "email cannot exceed 255 characters"
    ELSE IF ~EmailRegexMatches(email) THEN "invalid email format"
    ELSE "ok"

MaxFullNameLen == 255
MinAge == 13

\* NewUser; the birth date is the whole years it lies before time.Now()
NewUserErr(id, fullName, hashedPassword, birthYearsAgo, acceptTerms) ==
    LET name == TrimSpace(fullName) IN
    IF name = <<>> THEN "full name cannot be empty"
    ELSE IF Len(name) < MinNameLen THEN "full name must be at least 2 characters"
    ELSE IF Len(name) > MaxFullNameLen THEN "full name cannot exceed 255 characters"
    ELSE IF id = "" THEN "user id cannot be empty"
    ELSE IF hashedPassword = "" THEN "password cannot be empty"
    ELSE IF birthYearsAgo < 0 THEN "birth date cannot be in the future"
    ELSE IF birthYearsAgo < MinAge THEN "user must be at least 13 years old"
    ELSE IF ~acceptTerms THEN "user must accept terms and conditions"
    ELSE "ok"

\* What a registration may carry.
EmailInputs ==
    { <<"a", "@", "b", ".", "c", "o">>,
      <<" ", "A", "@", "b", ".", "c", "o", " ">>,
      <<"c", "@", "b", ".", "c", "o">>,
      <<"a", "@", "b", ".", "c">> }
Ann == <<"A", "n", "n">>
RegistrationInput(fullName, birthYearsAgo, acceptTerms) ==
    [fullName |-> fullName, birthYearsAgo |-> birthYearsAgo,
     acceptTerms |-> acceptTerms]
RegistrationInputs ==
    { RegistrationInput(Ann, 13, TRUE), RegistrationInput(<<" ", "A">>, 13, TRUE),
      RegistrationInput(Ann, 12, TRUE), RegistrationInput(Ann, -1, TRUE),
      RegistrationInput(Ann, 13, FALSE) }

RegIds == {1, 2}
UserUUIDs == <<"user-1", "user-2", "user-3">>

\* A row of users.
UserRow(id, fullName, email) ==
    [id |-> id, fullName |-> TrimSpace(fullName), email |-> email]

IdleRegistration ==
    [pc |-> "idle", email |-> <<>>, fullName |-> <<>>, birthYearsAgo |-> 0,
     acceptTerms |-> FALSE, err |-> NoError, out |-> <<>>,
     response |-> Response(0, "", <<>>),
     \* what the table held when the use case asked
     taken |-> FALSE, duplicate |-> FALSE]

RegIdle ==
    /\ users = {}
    /\ regs = [t \in RegIds |-> IdleRegistration]

\* SELECT EXISTS(SELECT 1 FROM users WHERE email = $1)
ExistsByEmail(email) == \E u \in users : u.email = email

\* The response UserHandler.Create writes for the use case's error.
CreateUserResponse(err) ==
    IF err = NoError THEN Response(201, "", <<>>)
    ELSE Response(422, "user_creation_failed", err)

\* A request reaches CreateUserUseCase.Execute.
StartCreateUser(t, email, fullName, birthYearsAgo, acceptTerms) ==
    /\ regs[t].pc \in {"idle", "done"}
    /\ regs' = [regs EXCEPT ![t] =
                   [IdleRegistration EXCEPT !.pc = "exists", !.email = email,
                        !.fullName = fullName, !.birthYearsAgo = birthYearsAgo,
                        !.acceptTerms = acceptTerms]]
    /\ UNCHANGED users
    /\ UNCHANGED exceptReg

\* CreateUserUseCase.Execute from NewEmail to the answer of ExistsByEmail.
CreateUserExistsByEmail(t, failure) ==
    LET reg == regs[t]
        email == NewEmailValue(reg.email)
        invalid == NewEmailErr(reg.email)
        seen == [reg EXCEPT !.taken =
                    /\ invalid = "ok" /\ failure = NoFailure
                    /\ \E u \in users : u.email = TrimSpace(ToLower(reg.email))]
        err == IF invalid # "ok" THEN <<"invalid email", invalid>>
               ELSE IF failure # NoFailure
                    THEN <<"failed to check if user exists",
                           "failed to check if email exists", failure>>
               ELSE IF ExistsByEmail(email)
                    THEN <<"user with email already exists", email>>
               ELSE NoError
    IN  /\ reg.pc = "exists"
        /\ regs' = [regs EXCEPT ![t] =
                       IF err # NoError
                       THEN [seen EXCEPT !.pc = "done", !.err = err,
                                         !.response = CreateUserResponse(err)]
                       ELSE [seen EXCEPT !.pc = "insert"]]
        /\ UNCHANGED users
        /\ UNCHANGED exceptReg

\* CreateUserUseCase.Execute from Hash to the return.  Hash succeeds for
\* every password of at most 72 bytes.
CreateUserRepoCreate(t, failure) ==
    LET reg == regs[t]
        id == UserUUIDs[Cardinality(users) + 1]
        email == NewEmailValue(reg.email)
        row == UserRow(id, reg.fullName, email)
        invalid == NewUserErr(id, reg.fullName, "hashed", reg.birthYearsAgo,
                              reg.acceptTerms)
        violates == \E u \in users : u.id = row.id \/ u.email = row.email
        refused == [reg EXCEPT !.duplicate =
                       \E u \in users : u.email = TrimSpace(ToLower(reg.email))]
        err == IF invalid # "ok" THEN <<"failed to create user", invalid>>
               ELSE IF failure # NoFailure
                    THEN <<"failed to save user", "failed to create user", failure>>
               ELSE IF violates
                    THEN <<"failed to save user", "failed to create user",
                           UniqueViolation>>
               ELSE NoError
        out == [ID |-> id, FullName |-> row.fullName, Email |-> email]
    IN  /\ reg.pc = "insert"
        /\ IF err # NoError
           THEN /\ regs' = [regs EXCEPT ![t] =
                       [(IF invalid = "ok" /\ failure = NoFailure
                         THEN refused ELSE reg)
                        EXCEPT !.pc = "done", !.err = err,
                               !.response = CreateUserResponse(err)]]
                /\ UNCHANGED users
           ELSE /\ users' = users \cup {row}
                /\ regs' = [regs EXCEPT ![t] =
                       [reg EXCEPT !.pc = "done", !.out = <<out>>,
                                   !.response = CreateUserResponse(NoError)]]
        /\ UNCHANGED exceptReg

NextRegister ==
    \/ \E t \in RegIds, email \in EmailInputs, input \in RegistrationInputs :
           StartCreateUser(t, email, input.fullName, input.birthYearsAgo,
                           input.acceptTerms)
    \/ \E t \in RegIds, failure \in Failures : CreateUserExistsByEmail(t, failure)
    \/ \E t \in RegIds, failure \in Failures : CreateUserRepoCreate(t, failure)

----------------------------------------------------------------------------
(* LoginUserUseCase and UserHandler.Login *)

ErrInvalidCredentials == <<"invalid email or password">>

\* BcryptHasher.Hash: a hash that only the password it was made from matches.
Hash(password) == <<"bcrypt", password>>

\* BcryptHasher.Compare
Compare(hashedPassword, password) ==
    IF hashedPassword[1] # "bcrypt"
    THEN <<"failed to compare password", "hashedSecret too short">>
    ELSE IF hashedPassword # Hash(password) THEN <<"invalid password">>
    ELSE NoError

\* The user registered before the logins, and the password given then.
RegisteredPassword == "right password"
Passwords == {RegisteredPassword, "wrong password"}
RegisteredUsers == {UserRow("user-1", Ann, <<"a", "@", "b", ".", "c", "o">>)}
Password(user) == Hash(RegisteredPassword)

\* PostgresUserRepository.FindByEmail
FindByEmail(email, failure) ==
    IF failure # NoFailure
    THEN [err |-> <<"failed to find user", failure>>, rows |-> {}]
    ELSE IF ~ExistsByEmail(email)
    THEN [err |-> <<"user not found">>, rows |-> {}]
    ELSE [err |-> NoError, rows |-> {u \in users : u.email = email}]

\* LoginUserUseCase.Execute handing the error of FindByEmail to its caller.
ExecuteRevealing(email, password, failure, t) ==
    LET found == FindByEmail(NewEmailValue(email), failure) IN
    IF NewEmailErr(email) # "ok" THEN [err |-> ErrInvalidCredentials, out |-> <<>>]
    ELSE IF found.err # NoError
    THEN [err |-> <<"failed to find user by email">> \o found.err, out |-> <<>>]
    ELSE LET user == CHOOSE u \in found.rows : TRUE IN
         IF Compare(Password(user), password) # NoError
         THEN [err |-> ErrInvalidCredentials, out |-> <<>>]
         ELSE [err |-> NoError,
               out |-> <<[UserID |-> user.id, Email |-> user.email,
                          FullName |-> user.fullName,
                          AccessToken |->
                              GenerateAccessToken(user.id, user.email, t),
                          RefreshToken |->
                              GenerateRefreshToken(user.id, user.email, t)]>>]

\* LoginUserUseCase.Execute at time t, the query of FindByEmail failing with
\* failure.  Signing with the HMAC key does not fail.
Execute(email, password, failure, t) ==
    LET found == FindByEmail(NewEmailValue(email), failure) IN
    IF NewEmailErr(email) # "ok" THEN [err |-> ErrInvalidCredentials, out |-> <<>>]
    ELSE IF found.err # NoError
    THEN [err |-> ErrInvalidCredentials, out |-> <<>>]
    ELSE LET user == CHOOSE u \in found.rows : TRUE IN
         IF Compare(Password(user), password) # NoError
         THEN [err |-> ErrInvalidCredentials, out |-> <<>>]
         ELSE [err |-> NoError,
               out |-> <<[UserID |-> user.id, Email |-> user.email,
                          FullName |-> user.fullName,
                          AccessToken |->
                              GenerateAccessToken(user.id, user.email, t),
                          RefreshToken |->
                              GenerateRefreshToken(user.id, user.email, t)]>>]

\* The response UserHandler.Login writes for the use case's error.
LoginResponse(err) ==
    IF err = NoError THEN Response(200, "", <<>>)
    ELSE IF err = ErrInvalidCredentials
         THEN Response(401, "authentication_failed",
                       <<"invalid email or password">>)
    ELSE Response(500, "login_failed", <<"failed to authenticate user">>)

\* What the request was, told from its input and the state of the store.
LoginCase(email, password, failure) ==
    IF NewEmailErr(email) # "ok" THEN "malformed email"
    ELSE IF failure # NoFailure THEN "store failed"
    ELSE IF ~ \E u \in users : u.email = TrimSpace(ToLower(email))
    THEN "unknown email"
    ELSE IF password # RegisteredPassword THEN "wrong password"
    ELSE "authenticated"

IdleLogin ==
    [pc |-> "idle", email |-> <<>>, password |-> "", err |-> NoError,
     out |-> <<>>, response |-> Response(0, "", <<>>)]

LoginIdle == login = IdleLogin /\ outcomes = {}

\* A request that passed the binding reaches LoginUserUseCase.Execute.
StartLogin(email, password) ==
    /\ login.pc \in {"idle", "done"}
    /\ login' = [IdleLogin EXCEPT !.pc = "find", !.email = email,
                                  !.password = password]
    /\ UNCHANGED <<outcomes, charVars, curveVars, attrVars, gateVars, storeVars,
                   regVars, tokenVars>>

\* LoginUserUseCase.Execute from the answer of FindByEmail to the response.
LoginFindByEmail(failure) ==
    LET r == Execute(login.email, login.password, failure, now)
        response == LoginResponse(r.err)
    IN  /\ login.pc = "find"
        /\ login' = [login EXCEPT !.pc = "done", !.err = r.err, !.out = r.out,
                                  !.response = response]
        /\ outcomes' = outcomes \cup
               {[case |-> LoginCase(login.email, login.password, failure),
                 cause |-> failure, err |-> r.err, response |-> response,
                 tokens |-> r.out # <<>>]}
        /\ UNCHANGED <<charVars, curveVars, attrVars, gateVars, storeVars,
                       regVars, tokenVars>>

NextLogin ==
    \/ Tick
    \/ \E email \in EmailInputs, password \in Passwords :
           StartLogin(email, password)
    \/ \E failure \in Failures : LoginFindByEmail(failure)

----------------------------------------------------------------------------
(* The JWT service called directly: issue a token, then validate it *)

Emails == {EmailOf(u) : u \in Users}

\* What RefreshAccessToken returns: the new access token, or an error.
NotRefreshed == [ok |-> FALSE, token |-> EmptyToken]

\* RefreshAccessToken refusing a refresh token it has already exchanged.
RefreshAccessTokenOnce(refreshToken, t) ==
    LET claims == ValidateToken(refreshToken, t) IN
    IF ~claims.ok \/ issued.reissued > 0 THEN NotRefreshed
    ELSE [ok |-> TRUE,
          token |-> GenerateAccessToken(claims.UserID, claims.Email, t)]

RefreshAccessToken(refreshToken, t) ==
    LET claims == ValidateToken(refreshToken, t) IN
    IF ~claims.ok THEN NotRefreshed
    ELSE [ok |-> TRUE,
          token |-> GenerateAccessToken(claims.UserID, claims.Email, t)]

NothingIssued ==
    [kind |-> "none", userID |-> "", email |-> "", at |-> 0,
     token |-> EmptyToken, validated |-> FALSE, validatedAt |-> 0,
     claims |-> NoClaims, refreshes |-> 0, reissued |-> 0, refreshedAt |-> 0,
     refreshed |-> NotRefreshed]

TokenIdle == issued = NothingIssued

\* GenerateAccessToken(userID, email) called at time now
IssueAccessToken(userID, email) ==
    /\ issued' = [NothingIssued EXCEPT !.kind = "access", !.userID = userID,
                      !.email = email, !.at = now,
                      !.token = GenerateAccessToken(userID, email, now)]
    /\ UNCHANGED <<gateVars, charVars, curveVars, attrVars, storeVars, regVars,
                   loginVars>>

\* GenerateRefreshToken(userID, email) called at time now
IssueRefreshToken(userID, email) ==
    /\ issued' = [NothingIssued EXCEPT !.kind = "refresh", !.userID = userID,
                      !.email = email, !.at = now,
                      !.token = GenerateRefreshToken(userID, email, now)]
    /\ UNCHANGED <<gateVars, charVars, curveVars, attrVars, storeVars, regVars,
                   loginVars>>

\* ValidateToken called at time now with the token issued last
ValidateIssued ==
    /\ issued.kind # "none"
    /\ issued' = [issued EXCEPT !.validated = TRUE, !.validatedAt = now,
                                !.claims = ValidateToken(issued.token, now)]
    /\ UNCHANGED <<gateVars, charVars, curveVars, attrVars, storeVars, regVars,
                   loginVars>>

\* RefreshAccessToken called at time now with the token issued last
RefreshIssued ==
    /\ issued.kind # "none"
    /\ issued.refreshes < MaxRefreshes
    /\ LET r == RefreshAccessToken(issued.token, now) IN
       issued' = [issued EXCEPT !.refreshes = @ + 1,
                                !.reissued = IF r.ok THEN @ + 1 ELSE @,
                                !.refreshedAt = now, !.refreshed = r]
    /\ UNCHANGED <<gateVars, charVars, curveVars, attrVars, storeVars, regVars,
                   loginVars>>

\* RefreshAccessToken called at time now with a token the service never made
RefreshForged(tok) ==
    /\ issued' = [NothingIssued EXCEPT !.kind = "forged", !.token = tok,
                      !.refreshes = 1, !.refreshedAt = now,
                      !.refreshed = RefreshAccessToken(tok, now)]
    /\ UNCHANGED <<gateVars, charVars, curveVars, attrVars, storeVars, regVars,
                   loginVars>>

NextToken ==
    \/ Tick
    \/ \E userID \in Users, email \in Emails : IssueAccessToken(userID, email)
    \/ \E userID \in Users, email \in Emails : IssueRefreshToken(userID, email)
    \/ ValidateIssued
    \/ RefreshIssued
    \/ \E tok \in ForgedTokens(now) \cup {EmptyToken, GarbageToken} :
           RefreshForged(tok)

----------------------------------------------------------------------------
(* Properties of the progression model *)

\* C1: after an AddXp with a non-negative amount g, currentXp lies in
\* [0, XpForNextLevel(level)) and totalXp has grown by exactly g.
AddXpPostcondition ==
    (charLast.op = "AddXp" /\ charLast.arg >= 0) =>
        /\ 0 <= currentXp
        /\ currentXp < XpForNextLevel(level)
        /\ totalXp = charLast.preTotalXp + charLast.arg

AddXpLevelledUp ==
    /\ charLast.op = "AddXp"
    /\ charLast.arg > 0
    /\ charLast.preTotalXp > 0
    /\ charLast.levelsGained >= 1

\* C2: every state reached from NewCharacter by AddXp calls (accepted or
\* rejected) and UpdateName calls has level >= 1, currentXp >= 0,
\* totalXp >= 0 and currentXp below the threshold of the level.
CharacterInvariant ==
    /\ level >= 1
    /\ currentXp >= 0
    /\ totalXp >= 0
    /\ currentXp < XpForNextLevel(level)

RejectedAfterProgress ==
    /\ level >= 3
    /\ currentXp > 0
    /\ charLast.err
    /\ charLast.op \in {"AddXp", "UpdateName"}

\* C3: AddXp(0) returns 0 levels gained and no error, and leaves level,
\* currentXp and totalXp as they were, from every reachable state.
AddXpZeroIsNoOp ==
    (charLast.op = "AddXp" /\ charLast.arg = 0) =>
        /\ ~charLast.err
        /\ charLast.levelsGained = 0
        /\ level = charLast.preLevel
        /\ currentXp = charLast.preCurrentXp
        /\ totalXp = charLast.preTotalXp

AddXpZeroOnProgressed ==
    /\ charLast.op = "AddXp"
    /\ charLast.arg = 0
    /\ level >= 2
    /\ currentXp > 0

\* The thresholds of the levels lo .. hi, summed.
RECURSIVE SumXp(_, _)
SumXp(lo, hi) == IF lo > hi THEN 0 ELSE XpForNextLevel(lo) + SumXp(lo + 1, hi)

FreshBefore ==
    charLast.preLevel = 1 /\ charLast.preCurrentXp = 0 /\ charLast.preTotalXp = 0

\* C4: an accepted AddXp(g) returns level_after - level_before, and leaves
\* currentXp = currentXp_before + g - the thresholds of the levels consumed;
\* on a fresh character AddXp(150) gives level 2, currentXp 50, totalXp 150,
\* 1 level gained, and AddXp(500) gives at least 2 levels gained, level >= 3
\* and totalXp 500.
AddXpLevelAccounting ==
    (charLast.op = "AddXp" /\ ~charLast.err) =>
        /\ charLast.levelsGained = level - charLast.preLevel
        /\ currentXp = charLast.preCurrentXp + charLast.arg
                         - SumXp(charLast.preLevel, level - 1)
        /\ (FreshBefore /\ charLast.arg = 150) =>
               /\ level = 2 /\ currentXp = 50 /\ totalXp = 150
               /\ charLast.levelsGained = 1
        /\ (FreshBefore /\ charLast.arg = 500) =>
               /\ charLast.levelsGained >= 2 /\ level >= 3 /\ totalXp = 500

SeveralLevelsInOneCall ==
    /\ charLast.op = "AddXp"
    /\ FreshBefore
    /\ charLast.arg = 500
    /\ charLast.levelsGained >= 2

\* C5: XpForNextLevel(L) is the integer nearest to 100 * L^1.5, that is the
\* x with (x - 1/2)^2 <= 10000 * L^3 < (x + 1/2)^2; it is 100, 283, 520 and
\* 3162 at L = 1, 2, 3 and 10; and it grows strictly with L.
CurveIsRoundedPower ==
    curveXp # 0 =>
        LET n == 10000 * curveLevel * curveLevel * curveLevel IN
        /\ curveXp * (curveXp - 1) < n
        /\ n <= curveXp * (curveXp + 1)
        /\ curveLevel = 1 => curveXp = 100
        /\ curveLevel = 2 => curveXp = 283
        /\ curveLevel = 3 => curveXp = 520
        /\ curveLevel = 10 => curveXp = 3162
        /\ curveLevel > 1 => curveXp > XpForNextLevel(curveLevel - 1)

CurveAtLevelTen == curveLevel = 10 /\ curveXp = 3162

\* C6: UpdateValue(n) fails exactly when n < 0, IncrementValue(a) exactly
\* when a < 0, DecrementValue(a) exactly when a < 0 or value - a < 0; a
\* failing call leaves the value unchanged (value 10, DecrementValue(15):
\* error, value still 10) and a succeeding call stores n, value + a,
\* value - a respectively.
AttributeOperationContract ==
    LET pre == attrLast.preValue
        a == attrLast.arg
    IN
    /\ attrLast.op = "UpdateValue" =>
           /\ attrLast.err <=> a < 0
           /\ attrValue = IF attrLast.err THEN pre ELSE a
    /\ attrLast.op = "IncrementValue" =>
           /\ attrLast.err <=> a < 0
           /\ attrValue = IF attrLast.err THEN pre ELSE pre + a
    /\ attrLast.op = "DecrementValue" =>
           /\ attrLast.err <=> (a < 0 \/ pre - a < 0)
           /\ attrValue = IF attrLast.err THEN pre ELSE pre - a
           /\ (pre = 10 /\ a = 15) => (attrLast.err /\ attrValue = 10)

DecrementBelowZeroRejected ==
    /\ attrLast.op = "DecrementValue"
    /\ attrLast.preValue = 10
    /\ attrLast.arg = 15
    /\ attrLast.err
    /\ attrValue = 10

NegativeXpRejected ==
    (charLast.op = "AddXp" /\ charLast.arg < 0) =>
        /\ charLast.err
        /\ charLast.levelsGained = 0
        /\ level = charLast.preLevel
        /\ currentXp = charLast.preCurrentXp
        /\ totalXp = charLast.preTotalXp

NegativeXpOnProgressed ==
    /\ charLast.op = "AddXp"
    /\ charLast.arg < 0
    /\ level >= 2
    /\ currentXp > 0
    /\ totalXp > currentXp

\* The level and currentXp that a fresh character has after one AddXp(total).
Replay(total) == LevelUpLoop(1, total, 0)

XpConserved == totalXp = currentXp + SumXp(1, level - 1)

XpReplayable ==
    /\ level = Replay(totalXp).level
    /\ currentXp = Replay(totalXp).currentXp

\* C29: in every state reached from NewCharacter, totalXp is currentXp plus
\* the thresholds of the levels 1 .. level-1, no step lowers totalXp, and
\* level and currentXp are those one AddXp(totalXp) gives a fresh character,
\* however the XP was split over the calls.
XpConservedAndReplayable ==
    /\ [](XpConserved /\ XpReplayable)
    /\ [][totalXp' >= totalXp]_vars

XpSplitOverCalls ==
    /\ charLast.op = "AddXp"
    /\ charLast.arg > 0
    /\ charLast.preTotalXp > 0
    /\ charLast.preLevel >= 2
    /\ level >= 3
    /\ currentXp > 0

\* The XP a call of AddXp found in currentXp plus the amount it was given.
XpAvailable == charLast.preCurrentXp + charLast.arg

IterationConsumesXp ==
    (InLoop /\ InLoop') =>
        /\ XpForNextLevel(level) > 0
        /\ currentXp' = currentXp - XpForNextLevel(level)
        /\ currentXp' < currentXp
        /\ currentXp' >= 0
        /\ level' = level + 1

LevelsBoundedByXp ==
    (charLast.op \in {"AddXpLoop", "AddXp"} /\ charLast.arg >= 0) =>
        /\ charLast.levelsGained = level - charLast.preLevel
        /\ charLast.arg = 0
             \/ SumXp(charLast.preLevel, level - 1) + currentXp = XpAvailable
        /\ charLast.levelsGained * XpForNextLevel(1) <= XpAvailable

\* C24: AddXp called with a non-negative amount on a character of level >= 1
\* and currentXp >= 0 returns: every iteration of its loop lowers currentXp
\* by the positive threshold of the level, and the levels gained cost no
\* more XP than the call had available.
AddXpTerminates ==
    /\ InLoop ~> (charLast.op = "AddXp")
    /\ [][IterationConsumesXp]_vars
    /\ []LevelsBoundedByXp

SeveralIterationsReturned ==
    /\ charLast.op = "AddXp"
    /\ ~charLast.err
    /\ charLast.preLevel >= 2
    /\ charLast.preCurrentXp >= XpForNextLevel(charLast.preLevel)
    /\ charLast.levelsGained >= 2

----------------------------------------------------------------------------
(* Properties of the authorization gate *)

\* The request carried "Bearer <non-empty token>" and ValidateToken accepted
\* the token when the middleware ran.
CarriedValidBearer(r) ==
    /\ r.header.lead = BearerPrefix
    /\ r.header.tok.raw # ""
    /\ ValidateToken(r.header.tok, r.authAt).ok

\* C8: the handler of a protected route runs only for a request whose
\* Authorization header is "Bearer <non-empty token>" with a token that
\* ValidateToken accepted; every other request (no header, another scheme,
\* empty token, token failing validation) ends in 401 without the handler
\* being invoked.
GateGuardsHandlers ==
    /\ (req.handlerRan \/ req.pc = "authenticated") => CarriedValidBearer(req)
    /\ (req.pc = "done" /\ ~CarriedValidBearer(req)) =>
           /\ req.status = 401
           /\ ~req.handlerRan
           /\ req.ucInput = NoInput

ExpiredTokenRejected ==
    /\ req.pc = "done"
    /\ req.header.lead = BearerPrefix
    /\ req.header.tok \in AccessTokensUpTo(req.authAt)
    /\ req.header.tok.exp <= req.authAt
    /\ req.status = 401
    /\ req.error = "invalid_token"
    /\ ~req.handlerRan

\* C9: the UserID a protected use case receives is the UserID of the claims
\* ValidateToken returned for the request's token, whatever user id the
\* client put in the body, path or query string.
UseCaseRunsAsTokenSubject ==
    req.ucInput.UseCase # "none" =>
        /\ req.ucInput.UseCase \in
               {"CreateCharacter", "GetUserCharacters", "GetCharacterAttributes"}
        /\ ValidateToken(req.header.tok, req.authAt).ok
        /\ req.ucInput.UserID = ValidateToken(req.header.tok, req.authAt).UserID
        /\ req.ucInput.UserID = req.header.tok.userID

CreateIgnoresClaimedUser ==
    /\ req.ucInput.UseCase = "CreateCharacter"
    /\ req.status = 201
    /\ req.claimedUserID = "user-2"
    /\ req.ucInput.UserID = "user-1"

\* The token came out of GenerateRefreshToken at some time up to t.
IsRefreshToken(tok, t) == tok \in RefreshTokensUpTo(t)

\* C10: a token issued by GenerateRefreshToken, presented as the bearer
\* token of a protected request, does not authenticate the request.
RefreshTokenNotAdmitted ==
    (req.pc # "idle" /\ IsRefreshToken(req.header.tok, now)) =>
        /\ req.pc # "authenticated"
        /\ ~req.handlerRan

\* A JWT signed with another key, asserting a method outside the HMAC
\* family, or expired at time t.
Unacceptable(tok, t) ==
    /\ tok.raw = "jwt"
    /\ (tok.sig # SecretKey \/ tok.alg \notin HMACAlgs \/ tok.exp <= t)

\* C20: ValidateToken returns no claims for a token signed with another key,
\* asserting a method outside the HMAC family, or expired, and the gate
\* answers a request carrying such a token 401 invalid_token, with no
\* identity put into the context and no handler run.
UnacceptableTokenRejected ==
    /\ \A tok \in PresentableTokens(now) :
           Unacceptable(tok, now) => ValidateToken(tok, now) = NoClaims
    /\ (/\ req.pc \notin {"idle", "received"}
        /\ req.header.lead = BearerPrefix
        /\ Unacceptable(req.header.tok, req.authAt))
       => /\ req.pc = "done"
          /\ req.status = 401
          /\ req.error = "invalid_token"
          /\ ~req.ctxSet
          /\ ~req.handlerRan

SubstitutedMethodRejected ==
    /\ req.pc = "done"
    /\ req.header.lead = BearerPrefix
    /\ req.header.tok.raw = "jwt"
    /\ req.header.tok.sig = SecretKey
    /\ req.header.tok.alg \notin HMACAlgs
    /\ req.status = 401 /\ req.error = "invalid_token"
    /\ \E tok \in PresentableTokens(now) :
           tok.raw = "jwt" /\ tok.alg \in HMACAlgs /\ tok.sig # SecretKey
    /\ \E tok \in AccessTokensUpTo(now) : tok.exp <= now

----------------------------------------------------------------------------
(* Properties of the character store *)

\* C11: GetCharacterAttributes reads and returns attributes only when the
\* stored character with the given id is owned by the requester; when the
\* lookup by id and owner fails, the use case returns an error and no
\* output, and the attribute table is never read.
AttributesOnlyForOwner ==
    \A t \in TaskIds :
        LET task == tasks[t] IN
        task.op = "GetCharacterAttributes" =>
            /\ (task.readAttributes => task.owned)
            /\ (task.out # <<>> =>
                    task.owned /\ task.out[1].CharacterID = task.characterID)
            /\ (task.pc = "done" /\ task.lookup # "found" =>
                    /\ task.err # NoError
                    /\ task.out = <<>>
                    /\ ~task.readAttributes)

ForeignCharacterRefused ==
    \E t \in TaskIds :
        /\ tasks[t].op = "GetCharacterAttributes" /\ tasks[t].pc = "done"
        /\ tasks[t].idExisted /\ ~tasks[t].owned
        /\ tasks[t].err # NoError /\ ~tasks[t].readAttributes

\* A lookup that the table answered with no row.
NoRowFound(t) ==
    /\ tasks[t].op = "GetCharacterAttributes" /\ tasks[t].pc = "done"
    /\ tasks[t].lookup = "no rows"

\* C12: the response to a get-attributes request (status, error code,
\* message) is the same whether the character id does not exist or exists
\* under another owner.
MissingAndForeignAlike ==
    \A t1, t2 \in TaskIds :
        (/\ NoRowFound(t1) /\ ~tasks[t1].idExisted
         /\ NoRowFound(t2) /\ tasks[t2].idExisted)
        => tasks[t1].response = tasks[t2].response

MissingAndForeignBothAsked ==
    \E t1, t2 \in TaskIds :
        /\ NoRowFound(t1) /\ ~tasks[t1].idExisted
        /\ NoRowFound(t2) /\ tasks[t2].idExisted
        /\ tasks[t2].response.status = 403

\* C13: when the existence check of CreateCharacter reports a character,
\* the use case returns the error "user already has a character" and no
\* output without writing to either table, and the response is 409
\* character_already_exists.
ExistingCharacterRejected ==
    \A t \in TaskIds :
        LET task == tasks[t] IN
        (task.op = "CreateCharacter" /\ task.existed) =>
            /\ task.pc = "done"
            /\ task.err = <<"user already has a character">>
            /\ task.out = <<>>
            /\ ~task.wroteCharacter /\ task.written = 0
            /\ task.response.status = 409
            /\ task.response.error = "character_already_exists"

SecondCreationRejected ==
    \E t \in TaskIds :
        /\ tasks[t].op = "CreateCharacter" /\ tasks[t].existed
        /\ tasks[t].response.status = 409
        /\ characters # {}

\* C14: however concurrent creations for one user interleave their check
\* and their insert, the table never holds two characters of one user and
\* at most one creation per user reports success.
OneCharacterPerUser ==
    /\ \A c1, c2 \in characters : c1.userID = c2.userID => c1 = c2
    /\ \A u \in Users : successes[u] <= 1

RaceLostAtInsert ==
    \E t1, t2 \in TaskIds :
        /\ tasks[t1].op = "CreateCharacter" /\ tasks[t2].op = "CreateCharacter"
        /\ tasks[t1].userID = tasks[t2].userID
        /\ tasks[t1].pc = "done" /\ tasks[t1].err = NoError
        /\ tasks[t2].pc = "done" /\ tasks[t2].duplicate

\* C15: every creation rejected because the user already has a character,
\* the insert that lost the race included, is answered 409
\* character_already_exists.
ExistingCharacterAlwaysConflict ==
    \A t \in TaskIds :
        LET task == tasks[t] IN
        (/\ task.op = "CreateCharacter" /\ task.pc = "done"
         /\ (task.existed \/ task.duplicate))
        => /\ task.response.status = 409
           /\ task.response.error = "character_already_exists"

SevenBaseNames ==
    {Forca, Constituicao, Vontade, Sabedoria, Inteligencia, Carisma, Destreza}

CreatedCharacterComplete ==
    \A t \in TaskIds :
        LET task == tasks[t] IN
        (task.op = "CreateCharacter" /\ task.pc = "done" /\ task.err = NoError) =>
            /\ task.wroteCharacter /\ task.written = 7
            /\ {c \in characters : c.userID = task.userID} =
                   {[id |-> task.characterID, name |-> TrimSpace(task.name),
                     level |-> 1, currentXp |-> 0, totalXp |-> 0,
                     userID |-> task.userID]}
            /\ FindByCharacterID(task.characterID) =
                   {AttributeRow(task.characterID, n, 5) : n \in SevenBaseNames}

AttributeWrittenAfterCharacter ==
    \A a \in attributes' \ attributes : \E c \in characters : c.id = a.characterID

\* C17: a creation that reports success has written one character (level 1,
\* no XP, owned by the requester) and the seven base attributes, each of
\* value 5 and each inserted when the character row was already stored.
SuccessfulCreationWrites ==
    []CreatedCharacterComplete /\ [][AttributeWrittenAfterCharacter]_vars

CharacterCreated ==
    \E t \in TaskIds :
        /\ tasks[t].op = "CreateCharacter" /\ tasks[t].pc = "done"
        /\ tasks[t].err = NoError /\ tasks[t].response.status = 201
        /\ Cardinality(attributes) >= 7

\* C18: in every state of the tables a stored character has all seven base
\* attributes.
StoredCharacterHasBaseAttributes ==
    \A c \in characters :
        {a.name : a \in FindByCharacterID(c.id)} = SevenBaseNames

\* The innermost cause of an error.
Cause(err) == err[Len(err)]

\* C23: a use case one of whose repository calls returned the cancellation
\* error returns an error and no output and is not answered as a success,
\* and a CreateCharacter cancelled at the existence check has written
\* nothing.
CancelledNeverSucceeds ==
    \A t \in TaskIds :
        LET task == tasks[t] IN
        (/\ task.pc = "done" /\ task.err # NoError
         /\ Cause(task.err) = "context canceled")
        => /\ task.out = <<>>
           /\ task.response.status \notin {200, 201}
           /\ (task.err[1] = "failed to check if character exists" =>
                   ~task.wroteCharacter /\ task.written = 0)

CancelledAtEveryCall ==
    /\ \E t \in TaskIds :
           /\ tasks[t].op = "CreateCharacter" /\ tasks[t].pc = "done"
           /\ tasks[t].err # NoError
           /\ tasks[t].err[1] = "failed to check if character exists"
           /\ Cause(tasks[t].err) = "context canceled"
    /\ \E t \in TaskIds :
           /\ tasks[t].op = "GetCharacterAttributes" /\ tasks[t].pc = "done"
           /\ tasks[t].err # NoError
           /\ Cause(tasks[t].err) = "context canceled"

\* The first n entries of baseAttributes as rows of the character.
FirstBaseAttributes(characterID, n) ==
    {AttributeRow(characterID, BaseAttributes[i].name, BaseAttributes[i].value) :
         i \in 1..n}

\* A creation that ended with the write of a base attribute failing.
AttributeWriteFailed(t) ==
    /\ tasks[t].op = "CreateCharacter" /\ tasks[t].pc = "done"
    /\ tasks[t].err # NoError
    /\ tasks[t].err[1] = "failed to save base attribute"

\* C26: when the write of the k-th base attribute fails, CreateCharacter
\* returns an error and no output, writes no further attribute and undoes
\* nothing: the character row and the first k-1 attributes stay stored.
PartialCreationKept ==
    \A t \in TaskIds :
        LET task == tasks[t] IN
        AttributeWriteFailed(t) =>
            /\ task.out = <<>>
            /\ task.response.status = 422
            /\ task.written \in 0..6
            /\ \E c \in characters :
                   c.id = task.characterID /\ c.userID = task.userID
            /\ FindByCharacterID(task.characterID) =
                   FirstBaseAttributes(task.characterID, task.written)

FourthAttributeFailed ==
    \E t \in TaskIds :
        /\ AttributeWriteFailed(t)
        /\ tasks[t].written = 3
        /\ Cardinality(FindByCharacterID(tasks[t].characterID)) = 3

\* C28: a failure of the database during the lookup of the character is
\* answered 500 and not as forbidden; 403 is the answer only to a character
\* that is missing or owned by another user.
LookupFailureIsServerError ==
    \A t \in TaskIds :
        LET task == tasks[t] IN
        (task.op = "GetCharacterAttributes" /\ task.pc = "done") =>
            /\ (task.lookup = "failed" => task.response.status = 500)
            /\ (task.response.status = 403 => task.lookup = "no rows")

\* A character some of whose base attributes are missing and whose creation
\* is no longer running.
Abandoned(c) ==
    /\ Cardinality(FindByCharacterID(c.id)) < 7
    /\ ~ \E t \in TaskIds : /\ tasks[t].op = "CreateCharacter"
                            /\ tasks[t].pc = "attributes"
                            /\ tasks[t].characterID = c.id

RetryRejected ==
    \A t \in TaskIds :
        LET task == tasks[t] IN
        (/\ task.op = "CreateCharacter" /\ task.existed
         /\ \E c \in characters : c.userID = task.userID /\ Abandoned(c))
        => /\ task.pc = "done"
           /\ task.err = <<"user already has a character">>
           /\ ~task.wroteCharacter /\ task.written = 0

AbandonedStaysIncomplete ==
    \A c \in characters :
        Abandoned(c) =>
            /\ c \in characters'
            /\ Abandoned(c)'
            /\ FindByCharacterID(c.id)' = FindByCharacterID(c.id)

----------------------------------------------------------------------------
(* Properties of registration *)

\* No two rows of users hold the same address, and every address is stored
\* trimmed and in lower case.
EmailRegisteredOnce ==
    /\ \A u1, u2 \in users : u1.email = u2.email => u1 = u2
    /\ \A u \in users : u.email = TrimSpace(ToLower(u.email))

\* A registration refused because its address was registered already.
DuplicateEmail(t) ==
    regs[t].pc = "done" /\ (regs[t].taken \/ regs[t].duplicate)

\* A registration refused by the validation of NewUser.
ValidationFailed(t) ==
    /\ regs[t].pc = "done" /\ regs[t].err # NoError
    /\ regs[t].err[1] = "failed to create user"

Outcome(t) == <<regs[t].response.status, regs[t].response.error>>

\* C16: a registration with an address that is registered already (compared
\* trimmed and in lower case) stores no second user and is answered with an
\* outcome that differs from the outcome of a validation failure.
DuplicateEmailIsDistinctConflict ==
    /\ EmailRegisteredOnce
    /\ \A t1, t2 \in RegIds :
           (DuplicateEmail(t1) /\ ValidationFailed(t2)) => Outcome(t1) # Outcome(t2)

----------------------------------------------------------------------------
(* Properties of login *)

Refusals == {"malformed email", "unknown email", "wrong password"}

\* C22: a login with a malformed email, with an unknown email and with a
\* wrong password for a known email all end in ErrInvalidCredentials and the
\* same 401 response, and none of them is given a token.
LoginOpaque ==
    \A o1, o2 \in outcomes :
        (o1.case \in Refusals /\ o2.case \in Refusals) =>
            /\ o1.err = ErrInvalidCredentials
            /\ o1.response.status = 401
            /\ ~o1.tokens
            /\ o1.err = o2.err
            /\ o1.response = o2.response

EveryRefusalSeen ==
    /\ \A c \in Refusals : \E o \in outcomes : o.case = c
    /\ \E o \in outcomes : o.case = "authenticated" /\ o.tokens

\* C27: a login during which the lookup of the email failed (store
\* unavailable, context cancelled) ends in an error that is not the
\* invalid-credentials error and is answered differently from it.
StoreFailureDistinguishable ==
    \A o \in outcomes :
        o.case = "store failed" =>
            /\ o.err # NoError
            /\ o.err # ErrInvalidCredentials
            /\ o.response.status # 401

----------------------------------------------------------------------------
(* Properties of the JWT service *)

Lifetime(kind) ==
    IF kind = "access" THEN AccessTokenDuration ELSE RefreshTokenDuration

\* C19: a token issued by GenerateAccessToken(id, email) and validated before
\* its expiry yields claims with UserID = id, Email = email and ExpiresAt =
\* IssuedAt + the access-token duration; a refresh token likewise with the
\* refresh-token duration.
TokenRoundTrip ==
    (/\ issued.kind \in {"access", "refresh"}
     /\ issued.validated
     /\ issued.validatedAt < NumericDate(issued.at) + Lifetime(issued.kind))
    => /\ issued.claims.ok
       /\ issued.claims.UserID = issued.userID
       /\ issued.claims.Email = issued.email
       /\ issued.claims.IssuedAt = NumericDate(issued.at)
       /\ issued.claims.ExpiresAt = issued.claims.IssuedAt + Lifetime(issued.kind)

AccessTokenValidatedInTime ==
    /\ issued.kind = "access" /\ issued.validated
    /\ issued.at % TicksPerSecond # 0
    /\ issued.claims.ok
    /\ issued.claims.UserID = "user-2"
    /\ issued.claims.ExpiresAt = issued.claims.IssuedAt + AccessTokenDuration

RefreshAsValidation ==
    issued.refreshes > 0 =>
        LET claims == ValidateToken(issued.token, issued.refreshedAt)
            fresh == ValidateToken(issued.refreshed.token, issued.refreshedAt)
        IN /\ issued.refreshed.ok <=> claims.ok
           /\ issued.refreshed.ok =>
                  /\ fresh.ok
                  /\ fresh.UserID = claims.UserID /\ fresh.Email = claims.Email
                  /\ fresh.ExpiresAt = fresh.IssuedAt + AccessTokenDuration
                  /\ issued.kind = "refresh" =>
                         /\ fresh.UserID = issued.userID
                         /\ fresh.Email = issued.email

RefreshKeepsToken ==
    (issued'.refreshes > issued.refreshes /\ issued.refreshes > 0) =>
        /\ issued'.token = issued.token
        /\ ValidateToken(issued'.token, now) = ValidateToken(issued.token, now)

\* C21: RefreshAccessToken(t) succeeds exactly when ValidateToken(t) does, the
\* access token it returns carries the UserID and Email of t, and the call
\* leaves t as valid as it was: every later refresh with t before its expiry
\* succeeds again.
RefreshReissuesAndKeepsToken ==
    []RefreshAsValidation /\ [][RefreshKeepsToken]_vars

RefreshedThreeTimes ==
    /\ issued.kind = "refresh"
    /\ issued.refreshes = 3 /\ issued.reissued = 3
    /\ issued.refreshedAt > issued.at
    /\ issued.refreshed.ok
    /\ issued.refreshed.token.userID = "user-2"

----------------------------------------------------------------------------
(* Specifications *)

InitCharacter == CharInit /\ CurveIdle /\ AttrIdle /\ GateIdle /\ StoreIdle /\ RegIdle
    /\ TokenIdle /\ LoginIdle
InitCurve == CurveInit /\ CharIdle /\ AttrIdle /\ GateIdle /\ StoreIdle /\ RegIdle
    /\ TokenIdle /\ LoginIdle
InitAttribute == AttrIdle /\ CharIdle /\ CurveIdle /\ GateIdle /\ StoreIdle /\ RegIdle
    /\ TokenIdle /\ LoginIdle
InitGate == GateIdle /\ CharIdle /\ CurveIdle /\ AttrIdle /\ StoreIdle /\ RegIdle
    /\ TokenIdle /\ LoginIdle
InitStore == StoreIdle /\ CharIdle /\ CurveIdle /\ AttrIdle /\ GateIdle /\ RegIdle
    /\ TokenIdle /\ LoginIdle
InitRegister == RegIdle /\ CharIdle /\ CurveIdle /\ AttrIdle /\ GateIdle /\ StoreIdle
    /\ TokenIdle /\ LoginIdle

InitAddXpLoop ==
    ReconstituteCharacter /\ CurveIdle /\ AttrIdle /\ GateIdle /\ StoreIdle
    /\ RegIdle /\ TokenIdle /\ LoginIdle

InitToken ==
    GateIdle /\ TokenIdle /\ CharIdle /\ CurveIdle /\ AttrIdle /\ StoreIdle /\ RegIdle
    /\ LoginIdle

\* The logins run against a users table that holds the registered user.
InitLogin ==
    /\ LoginIdle /\ users = RegisteredUsers
    /\ regs = [t \in RegIds |-> IdleRegistration]
    /\ GateIdle /\ TokenIdle /\ CharIdle /\ CurveIdle /\ AttrIdle /\ StoreIdle

SpecCharacter == InitCharacter /\ [][NextCharacter]_vars
SpecCurve == InitCurve /\ [][NextCurve]_vars
SpecAttribute == InitAttribute /\ [][NextAttribute]_vars
SpecGate == InitGate /\ [][NextGate]_vars
SpecStore == InitStore /\ [][NextStore]_vars
SpecRegister == InitRegister /\ [][NextRegister]_vars
SpecToken == InitToken /\ [][NextToken]_vars
SpecLogin == InitLogin /\ [][NextLogin]_vars

\* A call of AddXp that has started keeps running: it is straight-line code
\* of the caller's goroutine.
SpecAddXpLoop ==
    /\ InitAddXpLoop /\ [][NextAddXpLoop]_vars
    /\ WF_vars(LevelUpStep) /\ WF_vars(AddXpReturn)

====
